---- MODULE Spec2Model ----
(***************************************************************************)
(* A model of psarcfs (src/main.rs): the PSARC archive reader PSArc        *)
(* (print_file) and the FUSE facade PSArcFS (new, lookup, getattr, read,   *)
(* readdir).                                                               *)
(*                                                                         *)
(* Bytes are symbolic.  A byte string is a sequence of runs                *)
(*   [kind, id, lo, hi]                                                    *)
(* kind = "plain": bytes lo..hi-1 of the plaintext of entry id (0-based);  *)
(* kind = "comp":  bytes lo..hi-1 of the compressed stream of block id.    *)
(* Runs are non-empty and adjacent runs of one source are merged, so two   *)
(* byte strings are equal exactly when they denote the same bytes of a     *)
(* generic archive.  Sizes keep their real values (16384, 65536).          *)
(***************************************************************************)
EXTENDS Integers, Sequences, FiniteSets, TLC

VARIABLES psarc, files, tree, node_ids, cache, reply, alive, dirp

vars == <<psarc, files, tree, node_ids, cache, reply, alive, dirp>>

\* ------------------------------------------------------------ constants
ROOT_INODE == 1
ENOENT == 2
CACHE_SIZE == 16384

\* How far past the end of a file the modelled read offsets go.
MaxPastEof == 1

Min(a, b) == IF a <= b THEN a ELSE b

\* ------------------------------------------------------------ byte strings
Empty == << >>

Run(kind, id, lo, hi) ==
    IF hi > lo THEN << [kind |-> kind, id |-> id, lo |-> lo, hi |-> hi] >> ELSE Empty

Plain(id, lo, hi) == Run("plain", id, lo, hi)

RECURSIVE BLen(_)
BLen(bs) == IF bs = Empty THEN 0 ELSE (bs[1].hi - bs[1].lo) + BLen(Tail(bs))

\* io::Write::write_all onto the end of a Vec<u8>: concatenation.
BCat(a, b) ==
    IF a = Empty THEN b
    ELSE IF b = Empty THEN a
    ELSE LET x == a[Len(a)]
             y == b[1]
         IN  IF x.kind = y.kind /\ x.id = y.id /\ x.hi = y.lo
             THEN SubSeq(a, 1, Len(a) - 1) \o << [x EXCEPT !.hi = y.hi] >> \o Tail(b)
             ELSE a \o b

\* The bytes at positions from..to-1 (0-based) of bs, for from <= to <= BLen(bs).
RECURSIVE BSlice(_, _, _)
BSlice(bs, from, to) ==
    IF bs = Empty \/ to <= from \/ to <= 0 THEN Empty
    ELSE LET r == bs[1]
             n == r.hi - r.lo
         IN  IF from >= n THEN BSlice(Tail(bs), from - n, to - n)
             ELSE BCat(Run(r.kind, r.id, r.lo + from, r.lo + Min(to, n)),
                       BSlice(Tail(bs), 0, to - n))

\* Read::take(n) followed by io::copy: at most n bytes, fewer at end of file.
Take(bs, n) == BSlice(bs, 0, Min(n, BLen(bs)))

\* ------------------------------------------------------------ the archive
\* BlockSizeType::get_bitcount and get_bytecount.  The U32 variant (2^32) is
\* beyond the integers of the model checker; the archives modelled are U16 or U24.
get_bitcount(block_size) ==
    CASE block_size = "U16" -> 65536
      [] block_size = "U24" -> 16777216

get_bytecount(block_size) ==
    CASE block_size = "U16" -> 2
      [] block_size = "U24" -> 3

\* round::ceil(length as f64 / bitcount as f64, 0) as u64
CeilDiv(a, b) == (a + b - 1) \div b

NumBlocks(a, e) == CeilDiv(e.length, get_bitcount(a.block_size))

\* The archive record carries the data region of the file it was parsed from:
\* a.data, the bytes from a.toc_length to the end of the file, and for every
\* block its plaintext range (id, lo, hi), codec, compressed size and start.

\* The bytes of the file from absolute position pos to the end of the file.
FileFrom(a, pos) ==
    LET p == pos - a.toc_length
    IN  IF p >= BLen(a.data) THEN Empty ELSE BSlice(a.data, p, BLen(a.data))

\* The block that starts at absolute position pos, 0 if none does.
BlockAt(a, pos) ==
    LET s == { b \in 1..Len(a.blocks) : a.blocks[b].start = pos }
    IN  IF s = {} THEN 0 ELSE CHOOSE b \in s : TRUE

\* file.read_u16::<BigEndian>() at pos, classified as print_file classifies it:
\* "eof" when fewer than two bytes are left, else the codec the two bytes name.
\* A compressed block starts with its codec's magic; plaintext is taken not to.
ReadMagic(a, pos) ==
    LET rest == FileFrom(a, pos)
    IN  IF BLen(rest) < 2 THEN "eof"
        ELSE IF rest[1].kind = "comp" THEN a.blocks[rest[1].id].codec
        ELSE "None"

\* One pass of the `for _ in 0..blocks` loops of print_file: a decoder (ZLIB or
\* LZMA) is run on the stream at pos; it fails on anything that is not an intact
\* stream of its own codec.  ZLIB failures return Err, lzma_decompress is unwrapped.
RECURSIVE DecodeLoop(_, _, _, _, _, _, _)
DecodeLoop(a, codec, pos, left, out, amount, n) ==
    IF left = 0 THEN [res |-> "ok", out |-> out, nblocks |-> n]
    ELSE LET b == BlockAt(a, pos)
         IN  IF b = 0 \/ a.blocks[b].codec # codec \/ ~a.blocks[b].ok
             THEN [res |-> IF codec = "LZMA" THEN "panic" ELSE "err",
                   out |-> out, nblocks |-> n + 1]
             ELSE LET blk == a.blocks[b]
                      o2  == BCat(out, Plain(blk.id, blk.lo, blk.hi))
                  IN  IF BLen(o2) > amount
                      THEN [res |-> "ok", out |-> o2, nblocks |-> n + 1]
                      ELSE DecodeLoop(a, codec, pos + blk.csize, left - 1, o2, amount, n + 1)

\* PSArc::print_file(file, out, index, amount); amt is << >> for None, <<n>> for
\* Some(n).  The result is what was written to out, how the call ended, and how
\* many blocks were read: the block decodes started, or, on the stored path, all
\* the blocks of the entry, which the one copy of entry.length bytes reads.
print_file(a, index, amt) ==
    LET entry_details == a.entries[index + 1]
        amount == IF amt = << >> THEN entry_details.length ELSE amt[1]
        blocks == NumBlocks(a, entry_details)
        compression == ReadMagic(a, entry_details.offset)
    IN  CASE compression = "eof" ->
               [res |-> "err", out |-> Empty, nblocks |-> 0]
          [] compression = "None" ->
               [res |-> "ok",
                out |-> Take(FileFrom(a, entry_details.offset), entry_details.length),
                nblocks |-> blocks]
          [] OTHER ->
               DecodeLoop(a, compression, entry_details.offset, blocks, Empty, amount, 0)

\* ------------------------------------------------------------ archives
\* What PSArc::open leaves in the PSArc struct, together with the data region of
\* the file it was read from.  A file is described by its path (split at '/'),
\* its length and the codec and soundness of each of its blocks; the layout
\* (block plaintext ranges, compressed sizes, offsets, toc_length, block-size
\* table) follows from that as the format lays it out.
CompSize(n) == (n \div 4) + 13

BlocksOfFile(f, id, bsz) ==
    [ k \in 1..Len(f.blocks) |->
        LET lo == (k - 1) * bsz
            hi == Min(k * bsz, f.length)
        IN  [codec |-> f.blocks[k].codec, ok |-> f.blocks[k].ok,
             id |-> id, lo |-> lo, hi |-> hi,
             csize |-> IF f.blocks[k].codec = "None" THEN hi - lo ELSE CompSize(hi - lo)] ]

RECURSIVE AllBlocks(_, _, _)
AllBlocks(fs, i, bsz) ==
    IF i > Len(fs) THEN << >>
    ELSE BlocksOfFile(fs[i], i - 1, bsz) \o AllBlocks(fs, i + 1, bsz)

RECURSIVE SumCsize(_, _)
SumCsize(blks, n) == IF n = 0 THEN 0 ELSE blks[n].csize + SumCsize(blks, n - 1)

\* The raw bytes block b (1-based position in blks) occupies in the file: a
\* stored block is its plaintext, a compressed block is its own stream.
RawOfBlock(blks, b) ==
    IF blks[b].codec = "None" THEN Plain(blks[b].id, blks[b].lo, blks[b].hi)
    ELSE Run("comp", b, 0, blks[b].csize)

RECURSIVE RawFromBlock(_, _)
RawFromBlock(blks, b) ==
    IF b > Len(blks) THEN Empty
    ELSE BCat(RawOfBlock(blks, b), RawFromBlock(blks, b + 1))

RECURSIVE CountBlocks(_, _)
CountBlocks(fs, n) == IF n = 0 THEN 0 ELSE Len(fs[n].blocks) + CountBlocks(fs, n - 1)

\* parse_manifest: entry 0 is named by the archive flags.
ManifestName(archive_flags) ==
    IF archive_flags = "AbsolutePaths" THEN << "", "manifest.txt" >> ELSE << "manifest.txt" >>

open(compression_type, block_size, archive_flags, fs) ==
    LET bsz  == get_bitcount(block_size)
        blks == AllBlocks(fs, 1, bsz)
        toc  == 32 + 30 * Len(fs) + get_bytecount(block_size) * Len(blks)
    IN  [compression_type |-> compression_type,
         block_size       |-> block_size,
         archive_flags    |-> archive_flags,
         toc_length       |-> toc,
         toc_entry_count  |-> Len(fs),
         entries |-> [ i \in 1..Len(fs) |->
                        [name   |-> IF i = 1 THEN ManifestName(archive_flags) ELSE fs[i].name,
                         index_list_size |-> CountBlocks(fs, i - 1),
                         length |-> fs[i].length,
                         offset |-> toc + SumCsize(blks, CountBlocks(fs, i - 1))] ],
         block_sizes |-> [ b \in 1..Len(blks) |->
                            IF blks[b].codec = "None" /\ blks[b].hi - blks[b].lo = bsz
                            THEN 0 ELSE blks[b].csize % bsz ],
         blocks |-> [ b \in 1..Len(blks) |->
                       [codec |-> blks[b].codec, ok |-> blks[b].ok, id |-> blks[b].id,
                        lo |-> blks[b].lo, hi |-> blks[b].hi, csize |-> blks[b].csize,
                        start |-> toc + SumCsize(blks, b - 1)] ],
         data |-> RawFromBlock(blks, 1)]

Z  == [codec |-> "ZLIB", ok |-> TRUE]
L  == [codec |-> "LZMA", ok |-> TRUE]
S  == [codec |-> "None", ok |-> TRUE]
Zx == [codec |-> "ZLIB", ok |-> FALSE]

F(name, length, blocks) == [name |-> name, length |-> length, blocks |-> blocks]

\* A ZLIB archive, every block compressed.
ArcZlib ==
    open("ZLIB", "U16", "RelativePaths",
         << F(<< >>, 24, << Z >>),
            F(<< "a", "b.txt" >>, 3, << Z >>),
            F(<< "a", "big.bin" >>, 70000, << Z, Z >>),
            F(<< "c.dat" >>, 131072, << Z, Z >>) >>)

\* An uncompressed archive with 24-bit block sizes and absolute paths.  One
\* empty entry lies before other data; the file ends with a one-byte entry
\* followed by another empty entry.
ArcStored ==
    open("None", "U24", "AbsolutePaths",
         << F(<< >>, 8, << S >>),
            F(<< "", "a", "b.txt" >>, 3, << S >>),
            F(<< "", "a", "y" >>, 0, << >>),
            F(<< "", "a", "c", "e.bin" >>, 65537, << S >>),
            F(<< "", "z" >>, 1, << S >>),
            F(<< "", "a", "w" >>, 0, << >>) >>)

\* An LZMA archive; two entries share one path.
ArcLzma ==
    open("LZMA", "U16", "IgnoreCase",
         << F(<< >>, 10, << L >>),
            F(<< "x.bin" >>, 65537, << L, L >>),
            F(<< "x.bin" >>, 5, << L >>) >>)

\* A ZLIB archive with incompressible blocks stored verbatim.
ArcMixed ==
    open("ZLIB", "U16", "RelativePaths",
         << F(<< >>, 6, << Z >>),
            F(<< "m1" >>, 70000, << Z, S >>),
            F(<< "m2" >>, 70000, << S, Z >>),
            F(<< "t" >>, 16385, << Z >>) >>)

\* A ZLIB archive one of whose blocks is damaged.
ArcCorrupt ==
    open("ZLIB", "U16", "Unknown",
         << F(<< >>, 10, << Z >>),
            F(<< "d", "bad" >>, 70000, << Z, Zx >>),
            F(<< "d", "good" >>, 20000, << Z >>) >>)

\* PSArc::open ends with parse_manifest, which reads entry 0 in full: only
\* archives whose manifest decodes are ever mounted.
OpenOk(a) == print_file(a, 0, << >>).res = "ok"

Archives == { a \in {ArcZlib, ArcStored, ArcLzma, ArcMixed, ArcCorrupt} : OpenOk(a) }

\* ------------------------------------------------------------ PSArcFS::new
\* InodeData.  index is the entry index of an ArchivedFile (0 for a Folder).
Folder(name) == [kind |-> "Folder", name |-> name, index |-> 0]
ArchivedFile(name, index) == [kind |-> "ArchivedFile", name |-> name, index |-> index]

\* entry.name.split('/').filter(|x| x.len() > 0)
split_path(name) == SelectSeq(name, LAMBDA x : x # "")

\* files.insert, tree.insert(.., UnderNode(parent)), node_ids.insert, counter += 1.
\* Inodes are handed out in sequence, so files, the children lists and the parent
\* links are sequences indexed by inode; the NodeId of an inode is the inode.
InsertNode(t, data, parent_inode) ==
    [t EXCEPT !.files    = Append(@, data),
              !.children = [Append(@, << >>) EXCEPT ![parent_inode] = Append(@, t.inode_counter)],
              !.parent   = Append(@, parent_inode),
              !.inode_counter = @ + 1]

\* The `while let Some(name) = split_path.next()` loop for entry i.  current_path
\* is kept as the list of components pushed so far.
RECURSIVE WalkPath(_, _, _, _, _, _)
WalkPath(t, comps, k, current_path, parent_inode, i) ==
    IF k > Len(comps) THEN t
    ELSE IF k < Len(comps)
    THEN LET cp    == Append(current_path, comps[k])
             known == { fn \in t.folder_names : fn[1] = cp }
         IN  IF known # {}
             THEN WalkPath(t, comps, k + 1, cp, (CHOOSE fn \in known : TRUE)[2], i)
             ELSE WalkPath([InsertNode(t, Folder(comps[k]), parent_inode)
                               EXCEPT !.folder_names = @ \cup { << cp, t.inode_counter >> }],
                           comps, k + 1, cp, t.inode_counter, i)
    ELSE InsertNode(t, ArchivedFile(comps[k], i), parent_inode)

RECURSIVE BuildEntries(_, _, _)
BuildEntries(t, a, i) ==
    IF i >= Len(a.entries) THEN t
    ELSE BuildEntries(WalkPath(t, split_path(a.entries[i + 1].name), 1, << >>, ROOT_INODE, i),
                      a, i + 1)

\* PSArcFS::new.  The root is the folder "." with no parent (0); its entry in
\* folder_names, ".", is the empty component list here: no pushed path equals it.
new(a) ==
    BuildEntries([files |-> << Folder(".") >>,
                  children |-> << << >> >>,
                  parent |-> << 0 >>,
                  folder_names |-> { << << >>, ROOT_INODE >> },
                  inode_counter |-> ROOT_INODE + 1],
                 a, 0)

\* ------------------------------------------------------------ attributes
\* FileAttr; every timestamp is UNIX_EPOCH (0), blocks and rdev are 0.
FileAttr(ino, size, ftype, perm, nlink) ==
    [ino |-> ino, size |-> size, blocks |-> 0, atime |-> 0, mtime |-> 0, ctime |-> 0,
     ftype |-> ftype, perm |-> perm, nlink |-> nlink, uid |-> 0, gid |-> 0, rdev |-> 0]

NoAttr == FileAttr(0, 0, "none", 0, 0)

\* 0o755 and 0o644
Perm755 == 493
Perm644 == 420

\* ------------------------------------------------------------ replies
NoArgs == [ino |-> 0, offset |-> 0, size |-> 0, name |-> ""]

Reply(op, args, kind) ==
    [op |-> op, args |-> args, kind |-> kind, errno |-> 0, attr |-> NoAttr,
     data |-> Empty, entries |-> << >>, served |-> "none", res |-> "ok", nblocks |-> 0]

HasInode(ino) == ino \in 1..Len(files)

\* ------------------------------------------------------------ lookup
\* The attributes lookup builds for a child.
LookupAttr(inode) ==
    IF files[inode].kind = "Folder"
    THEN FileAttr(inode, 0, "Directory", Perm755, 2)
    ELSE FileAttr(inode, psarc.entries[files[inode].index + 1].length, "RegularFile", Perm755, 2)

\* The first child of parent, in tree order, whose name is name; 0 if none.
RECURSIVE FirstNamed(_, _, _)
FirstNamed(cs, k, name) ==
    IF k > Len(cs) THEN 0
    ELSE IF files[cs[k]].name = name THEN cs[k]
    ELSE FirstNamed(cs, k + 1, name)

LookupOp(parent, name) ==
    LET args  == [NoArgs EXCEPT !.ino = parent, !.name = name]
        found == IF parent \in node_ids THEN FirstNamed(tree.children[parent], 1, name) ELSE 0
    IN  IF found # 0
        THEN [Reply("lookup", args, "entry") EXCEPT !.attr = LookupAttr(found)]
        ELSE [Reply("lookup", args, "error") EXCEPT !.errno = ENOENT]

\* ------------------------------------------------------------ getattr
GetattrOp(ino) ==
    LET args == [NoArgs EXCEPT !.ino = ino]
    IN  IF ~HasInode(ino) THEN [Reply("getattr", args, "error") EXCEPT !.errno = ENOENT]
        ELSE IF files[ino].kind = "Folder"
        THEN [Reply("getattr", args, "attr") EXCEPT
                 !.attr = FileAttr(ino, 0, "Directory", Perm755, 2)]
        ELSE [Reply("getattr", args, "attr") EXCEPT
                 !.attr = FileAttr(ino, psarc.entries[files[ino].index + 1].length,
                                   "RegularFile", Perm644, 1)]

\* ------------------------------------------------------------ read
\* A faulty CacheHit: the `offset == 0` test is lost.
CacheHit_AnyOffset(c, ino, offset, size) ==
    size <= CACHE_SIZE /\ ino \in DOMAIN c

\* `if offset == 0 { if size <= 16384 { match self.cache.get(&ino) { Some(..)`
CacheHit(c, ino, offset, size) ==
    offset = 0 /\ size <= CACHE_SIZE /\ ino \in DOMAIN c

\* A faulty CacheSlice: the whole slot is replied, `size` is ignored.
CacheSlice_Whole(cached_data, size) == cached_data

\* &cached_data[..size as usize]
CacheSlice(cached_data, size) == BSlice(cached_data, 0, size)

\* `match self.files.get(&ino) { Some(ArchivedFile(_, id)) => id, _ => ENOENT }`:
\* <<id>> or << >>.
FileIndex(ino) ==
    IF HasInode(ino) /\ files[ino].kind = "ArchivedFile" THEN << files[ino].index >> ELSE << >>

\* A faulty CacheFill: the slot is stored under the entry index, not the inode.
CacheFill_ByIndex(c, ino, offset, list_of_bytes) ==
    IF offset = 0 /\ BLen(list_of_bytes) > CACHE_SIZE
    THEN [ x \in DOMAIN c \cup {FileIndex(ino)[1]} |->
             IF x = FileIndex(ino)[1] THEN BSlice(list_of_bytes, 0, CACHE_SIZE) ELSE c[x] ]
    ELSE c

\* A faulty CacheFill: the last 16384 bytes decoded are stored, not the first.
CacheFill_Tail(c, ino, offset, list_of_bytes) ==
    IF offset = 0 /\ BLen(list_of_bytes) > CACHE_SIZE
    THEN [ x \in DOMAIN c \cup {ino} |->
             IF x = ino
             THEN BSlice(list_of_bytes, BLen(list_of_bytes) - CACHE_SIZE, BLen(list_of_bytes))
             ELSE c[x] ]
    ELSE c

\* `if offset == 0 { if list_of_bytes.len() > 16384 { ... self.cache.insert(ino, ..`
CacheFill(c, ino, offset, list_of_bytes) ==
    IF offset = 0 /\ BLen(list_of_bytes) > CACHE_SIZE
    THEN [ x \in DOMAIN c \cup {ino} |->
             IF x = ino THEN BSlice(list_of_bytes, 0, CACHE_SIZE) ELSE c[x] ]
    ELSE c

\* `let end = min(offset + size, len); reply.data(&list_of_bytes[offset..end])`:
\* indexing a slice with offset > end aborts the handler.
ReplySlice(list_of_bytes, offset, size) ==
    LET end == Min(offset + size, BLen(list_of_bytes))
    IN  IF offset > end THEN [ok |-> FALSE, data |-> Empty]
        ELSE [ok |-> TRUE, data |-> BSlice(list_of_bytes, offset, end)]

\* PSArcFS::read on cache c: the reply, and the cache it leaves.  kind "panic"
\* is a handler that did not return (an unwrap of Err, a slice out of range).
ReadOp(c, ino, offset, size) ==
    LET args == [NoArgs EXCEPT !.ino = ino, !.offset = offset, !.size = size]
    IN  IF CacheHit(c, ino, offset, size)
        THEN [reply |-> [Reply("read", args, "data") EXCEPT
                            !.data = CacheSlice(c[ino], size), !.served = "cache"],
              cache |-> c]
        ELSE IF FileIndex(ino) = << >>
        THEN [reply |-> [Reply("read", args, "error") EXCEPT !.errno = ENOENT],
              cache |-> c]
        ELSE LET pf == print_file(psarc, FileIndex(ino)[1], << offset + size >>)
             IN  IF pf.res # "ok"
                 THEN [reply |-> [Reply("read", args, "panic") EXCEPT
                                     !.res = pf.res, !.nblocks = pf.nblocks],
                       cache |-> c]
                 ELSE LET c2 == CacheFill(c, ino, offset, pf.out)
                          sl == ReplySlice(pf.out, offset, size)
                      IN  [reply |-> [Reply("read", args, IF sl.ok THEN "data" ELSE "panic") EXCEPT
                                         !.data = sl.data, !.served = "archive",
                                         !.nblocks = pf.nblocks],
                           cache |-> c2]

\* ------------------------------------------------------------ readdir
DirEntry(ino, cookie, ftype, name) ==
    [ino |-> ino, cookie |-> cookie, ftype |-> ftype, name |-> name]

\* `for (i, child) in children.enumerate().skip(offset)`: child i (0-based) is
\* added with cookie i + 2.
RECURSIVE ChildEntries(_, _)
ChildEntries(cs, i) ==
    IF i >= Len(cs) THEN << >>
    ELSE << DirEntry(cs[i + 1], i + 2,
                     IF files[cs[i + 1]].kind = "Folder" THEN "Directory" ELSE "RegularFile",
                     files[cs[i + 1]].name) >>
         \o ChildEntries(cs, i + 1)

\* The ".." entry: tree.ancestors(dir_node).next() is the parent, None at the root.
DotDot(ino, offset) ==
    LET p == tree.parent[ino]
    IN  IF p = 0
        THEN IF offset < 2 THEN << DirEntry(1, 2, "Directory", "..") >> ELSE << >>
        ELSE IF files[p].kind = "Folder" /\ offset < 2
             THEN << DirEntry(p, 2, "Directory", "..") >>
             ELSE << >>

ReaddirOp(ino, offset) ==
    LET args == [NoArgs EXCEPT !.ino = ino, !.offset = offset]
    IN  IF ino \notin node_ids
        THEN [Reply("readdir", args, "error") EXCEPT !.errno = ENOENT]
        ELSE [Reply("readdir", args, "dir") EXCEPT
                 !.entries = (IF offset = 0 THEN << DirEntry(ino, 1, "Directory", ".") >> ELSE << >>)
                             \o DotDot(ino, offset)
                             \o ChildEntries(tree.children[ino], offset)]

\* ------------------------------------------------------------ the state machine
\* The inputs the kernel bridge may send.
Inodes == 1..(Len(files) + 1)

Names == { files[i].name : i \in 1..Len(files) } \cup { "nope" }

FileLength(ino) == psarc.entries[files[ino].index + 1].length

ReadOffsets(ino) ==
    {0, 16384, 20000}
    \cup (IF FileIndex(ino) = << >> THEN {}
          ELSE { FileLength(ino) + d : d \in 0..MaxPastEof })

ReadSizes(ino) ==
    {1, 4096, 16384, 16385, 65536}
    \cup (IF FileIndex(ino) = << >> THEN {} ELSE { FileLength(ino) })

NoListing == [ino |-> 0, offset |-> 0, seen |-> << >>, done |-> FALSE]

Init ==
    /\ psarc \in Archives
    /\ LET t == new(psarc)
       IN  /\ files = t.files
           /\ tree = [children |-> t.children, parent |-> t.parent]
           /\ node_ids = 1..Len(t.files)
    /\ cache = << >>
    /\ reply = Reply("none", NoArgs, "none")
    /\ alive = TRUE
    /\ dirp = NoListing

frame == << psarc, files, tree, node_ids >>

Lookup(parent, name) ==
    /\ alive
    /\ reply' = LookupOp(parent, name)
    /\ UNCHANGED << frame, cache, alive, dirp >>

Getattr(ino) ==
    /\ alive
    /\ reply' = GetattrOp(ino)
    /\ UNCHANGED << frame, cache, alive, dirp >>

Read(ino, offset, size) ==
    /\ alive
    /\ \E r \in { ReadOp(cache, ino, offset, size) } :
           /\ reply' = r.reply
           /\ cache' = r.cache
           /\ alive' = (r.reply.kind # "panic")
    /\ UNCHANGED << frame, dirp >>

Readdir(ino, offset) ==
    /\ alive
    /\ reply' = ReaddirOp(ino, offset)
    /\ UNCHANGED << frame, cache, alive, dirp >>

\* A client lists a directory page by page: it starts at offset 0, keeps a
\* non-empty prefix of each reply (what fitted its buffer) and asks again from the
\* cookie of the last entry it kept, until a reply is empty.
Directories == { i \in 1..Len(files) : files[i].kind = "Folder" }

StartListing(ino) ==
    /\ alive
    /\ dirp' = [ino |-> ino, offset |-> 0, seen |-> << >>, done |-> FALSE]
    /\ UNCHANGED << frame, cache, alive, reply >>

ListNext(k) ==
    /\ alive
    /\ dirp.ino # 0 /\ ~dirp.done
    /\ LET r == ReaddirOp(dirp.ino, dirp.offset)
       IN  /\ reply' = r
           /\ IF r.entries = << >>
              THEN k = 0 /\ dirp' = [dirp EXCEPT !.done = TRUE]
              ELSE /\ k \in 1..Len(r.entries)
                   /\ dirp' = [dirp EXCEPT !.seen = @ \o SubSeq(r.entries, 1, k),
                                           !.offset = r.entries[k].cookie]
    /\ UNCHANGED << frame, cache, alive >>

MaxPage == 5

Next ==
    \/ \E parent \in Inodes, name \in Names : Lookup(parent, name)
    \/ \E ino \in Inodes : Getattr(ino)
    \/ \E ino \in Inodes : \E offset \in ReadOffsets(ino), size \in ReadSizes(ino) :
          Read(ino, offset, size)
    \/ \E ino \in Inodes, offset \in 0..3 : Readdir(ino, offset)

Spec == Init /\ [][Next]_vars

\* Directory listing in pages.  read is left out: it changes only the cache,
\* which no other handler reads.
NextDir ==
    \/ \E ino \in Directories : StartListing(ino)
    \/ \E k \in 0..MaxPage : ListNext(k)
    \/ \E parent \in Inodes, name \in Names : Lookup(parent, name)
    \/ \E ino \in Inodes : Getattr(ino)
    \/ \E ino \in Inodes, offset \in 0..3 : Readdir(ino, offset)

SpecDir == Init /\ [][NextDir]_vars

\* ------------------------------------------------------------ properties
FileInodes == { i \in 1..Len(files) : files[i].kind = "ArchivedFile" }

\* The children of a directory, as a set of inodes.
ChildSet(ino) == { tree.children[ino][k] : k \in 1..Len(tree.children[ino]) }

\* C1: over a whole paged listing of a directory (from offset 0, each next call
\* at the cookie of the last entry kept, until an empty reply) every child is
\* listed exactly once and the cookies of the entries listed strictly increase.
C1_ReaddirPagingComplete ==
    (dirp.ino # 0 /\ dirp.done) =>
        /\ \A c \in ChildSet(dirp.ino) :
              Cardinality({ k \in 1..Len(dirp.seen) :
                              dirp.seen[k].ino = c /\ dirp.seen[k].name \notin {".", ".."} }) = 1
        /\ \A k \in 1..(Len(dirp.seen) - 1) : dirp.seen[k].cookie < dirp.seen[k + 1].cookie

\* read(ino, k*16384, 16384) for k = k..n-1 one after the other, each on the
\* cache the one before left: whether all replied with data, and the data joined.
RECURSIVE ReadSlices(_, _, _, _, _)
ReadSlices(c, ino, k, n, acc) ==
    IF k >= n THEN [ok |-> TRUE, data |-> acc]
    ELSE LET r == ReadOp(c, ino, k * CACHE_SIZE, CACHE_SIZE)
         IN  IF r.reply.kind # "data" THEN [ok |-> FALSE, data |-> acc]
             ELSE ReadSlices(r.cache, ino, k + 1, n, BCat(acc, r.reply.data))

C3_CacheCoherence ==
    /\ (/\ reply.op = "read" /\ reply.kind = "data" /\ reply.args.offset = 0
        /\ reply.args.ino \in FileInodes
        /\ FileLength(reply.args.ino) > CACHE_SIZE) => reply.args.ino \in DOMAIN cache
    /\ \A ino \in DOMAIN cache :
          /\ ino \in FileInodes
          /\ cache[ino] = Plain(files[ino].index, 0, CACHE_SIZE)
    /\ (reply.op = "read" /\ reply.served = "cache") =>
          /\ reply.kind = "data"
          /\ reply.args.ino \in FileInodes
          /\ FileLength(reply.args.ino) > CACHE_SIZE
          /\ reply.data = Plain(files[reply.args.ino].index, 0, reply.args.size)
          /\ LET direct == ReadOp(<< >>, reply.args.ino, 0, reply.args.size).reply
             IN  direct.kind = "data" /\ direct.served = "archive" /\ direct.data = reply.data

\* A read was served from the cache while another inode is cached too.
C3_Witness ==
    /\ reply.op = "read" /\ reply.served = "cache"
    /\ reply.args.size = CACHE_SIZE
    /\ Cardinality(DOMAIN cache) >= 2

\* C4: the attributes of a successful lookup reply are those getattr returns for
\* the inode the lookup returned.
C4_LookupMatchesGetattr ==
    (reply.op = "lookup" /\ reply.kind = "entry") =>
        LET g == GetattrOp(reply.attr.ino)
        IN  g.kind = "attr" /\ g.attr = reply.attr

\* C5: a read of a file at or past its end (offset >= length, size >= 1) replies
\* with an empty byte slice: no error, no aborted handler.
C5_ReadPastEofEmpty ==
    (/\ reply.op = "read"
     /\ reply.args.ino \in FileInodes
     /\ reply.args.offset >= FileLength(reply.args.ino)
     /\ reply.args.size >= 1) =>
        reply.kind = "data" /\ reply.data = Empty /\ alive

\* C6: a read whose decoding failed gets an error reply, and the engine stays
\* usable.
C6_DecodeFailureIsolated ==
    (reply.op = "read" /\ reply.res # "ok") => (reply.kind = "error" /\ alive)

\* C7: print_file with no amount writes, for every entry, exactly the entry's
\* length of plaintext: its blocks' plaintext joined in order.
C7_FullReadLength ==
    \A i \in 0..(Len(psarc.entries) - 1) :
        LET pf == print_file(psarc, i, << >>)
        IN  /\ pf.res = "ok"
            /\ BLen(pf.out) = psarc.entries[i + 1].length
            /\ pf.out = Plain(i, 0, psarc.entries[i + 1].length)

\* C8: a read of an inode that is a folder or is unknown replies ENOENT and no
\* data, whatever the offset and size; the cache holds entries of files only.
C8_ReadNonFileEnoent ==
    /\ \A ino \in DOMAIN cache : FileIndex(ino) # << >>
    /\ (reply.op = "read" /\ FileIndex(reply.args.ino) = << >>) =>
          reply.kind = "error" /\ reply.errno = ENOENT /\ reply.data = Empty

\* A folder was read at offset 0 with a size the cache path takes, while the
\* cache is not empty.
C8_Witness ==
    /\ reply.op = "read" /\ reply.kind = "error"
    /\ reply.args.ino \in Directories
    /\ reply.args.offset = 0 /\ reply.args.size <= CACHE_SIZE
    /\ cache # << >>

\* C9: no handler changes the inode map, the tree or the parsed archive; only
\* read changes the cache, only by setting the entry of the inode it reads; an
\* entry, once set, keeps its value.
C9_Frame ==
    [][ /\ psarc' = psarc /\ files' = files /\ tree' = tree /\ node_ids' = node_ids
        /\ (reply'.op # "read" => cache' = cache)
        /\ \A i \in DOMAIN cache : i \in DOMAIN cache' /\ cache'[i] = cache[i]
        /\ \A i \in DOMAIN cache' \ DOMAIN cache :
              reply'.op = "read" /\ i = reply'.args.ino ]_vars

\* A read at offset 0 went to the archive for an inode already cached, next to
\* another cached inode.
C9_Witness ==
    /\ reply.op = "read" /\ reply.served = "archive" /\ reply.kind = "data"
    /\ reply.args.offset = 0
    /\ reply.args.size > CACHE_SIZE
    /\ reply.args.ino \in DOMAIN cache
    /\ Cardinality(DOMAIN cache) >= 2

\* The blocks of entry idx.
EntryBlocks(a, idx) == { b \in 1..Len(a.blocks) : a.blocks[b].id = idx }

\* An entry of intact blocks some of which are compressed and some stored.
MixedEntry(a, idx) ==
    /\ \A b \in EntryBlocks(a, idx) : a.blocks[b].ok
    /\ \E b \in EntryBlocks(a, idx) : a.blocks[b].codec = "None"
    /\ \E b \in EntryBlocks(a, idx) : a.blocks[b].codec # "None"

\* C10: codec dispatch is per block, so a read of an entry that mixes compressed
\* and stored blocks returns the plaintext asked for.
C10_PerBlockDispatch ==
    (/\ reply.op = "read"
     /\ reply.args.ino \in FileInodes
     /\ MixedEntry(psarc, files[reply.args.ino].index)
     /\ reply.args.offset <= FileLength(reply.args.ino)) =>
        /\ reply.kind = "data"
        /\ reply.data = Plain(files[reply.args.ino].index, reply.args.offset,
                              Min(reply.args.offset + reply.args.size,
                                  FileLength(reply.args.ino)))

\* C11: a read that went to the archive read and decoded exactly
\* min(num_blocks, ceil((offset + size) / max_block_size)) blocks of the entry.
C11_BlocksConsumed ==
    (reply.op = "read" /\ reply.served = "archive") =>
        reply.nblocks =
            Min(NumBlocks(psarc, psarc.entries[files[reply.args.ino].index + 1]),
                CeilDiv(reply.args.offset + reply.args.size, get_bitcount(psarc.block_size)))

====
